---- MODULE Spec2Model ----
(***************************************************************************)
(* Reminder scheduling and delivery core of the medicine-reminder backend. *)
(*                                                                         *)
(* Queue service: utils/queueService.js (Bull queues "medication-          *)
(* reminders" and "missed-dose-checks").  User operations:                 *)
(* src/controllers/reminderController.js.  Record: src/models/Reminder.js. *)
(*                                                                         *)
(* Time is counted in whole minutes since an arbitrary origin.             *)
(***************************************************************************)
EXTENDS Integers, Sequences, FiniteSets, Bags, TLC

VARIABLES
  now,              \* the wall clock, new Date() / Date.now()
  reminders,        \* the Reminder collection: id -> document
  reminderQueue,    \* bag of jobs of the Bull queue "medication-reminders"
  missedDoseQueue,  \* bag of jobs of the Bull queue "missed-dose-checks"
  nextJobId,        \* 1 + the number of jobs added to reminderQueue so far
  dispatched,       \* id -> number of reminder notifications sent to the owner
  guardianNotified, \* id -> number of missed-dose notifications sent to the guardian
  lastOp,           \* the last operation that ran and its result
  apiCalls,         \* number of requests the API layer has served
  checking          \* the missed-check handler between its read and its write

vars == <<now, reminders, reminderQueue, missedDoseQueue, nextJobId,
          dispatched, guardianNotified, lastOp, apiCalls, checking>>

----------------------------------------------------------------------------
(* Bounds of the model *)

MaxTime == 2        \* the clock ticks minute by minute up to here
MaxJobs == 2        \* jobs added to reminderQueue in a run
MaxApiCalls == 2    \* requests served by the API layer
MaxItems == 2       \* medicines per reminder
MaxReminders == 3   \* documents in the collection
NearTime == 1       \* a reminder time a few minutes after the origin

(* Program constants, in minutes *)

GraceMinutes == 5           \* 5 * 60 * 1000 ms
BufferMinutes == 0          \* 10 * 1000 ms: below one tick of the clock
ISTOffsetMinutes == 330     \* 19800000 ms
HorizonMinutes == 2880      \* addHoursToDate(48)
BackoffMinutes == 1         \* backoff delay 60000 ms
Attempts == 3               \* attempts: 3
DayMinutes == 1440
DefaultSnoozeMinutes == 15  \* const { minutes = 15 } = req.body
UserRangeTenths == 3        \* addHoursToDate(0.3)

None == -1

Max(a, b) == IF a >= b THEN a ELSE b

----------------------------------------------------------------------------
(* Users: "u1" has the linked guardian "g1", "u2" has none. *)

Users == {"u1", "u2"}

ParentOf(u) == IF u = "u1" THEN "g1" ELSE "none"

Ids == 1..MaxReminders

FarTime == ISTOffsetMinutes + NearTime + 2

NoReminder ==
  [exists |-> FALSE, user |-> "none", active |-> FALSE, time |-> None,
   status |-> "pending", medicines |-> <<>>, snoozedUntil |-> None,
   missedAt |-> None, notificationSent |-> FALSE, notificationCount |-> 0,
   parentNotified |-> FALSE, repeat |-> "none", scheduleEnd |-> None,
   daysOfWeek |-> {}, daysOfMonth |-> {}, repeatInterval |-> 1,
   repeatUnit |-> "days"]

NewReminder(u, t, n, rep, end) ==
  [exists |-> TRUE, user |-> u, active |-> TRUE, time |-> t,
   status |-> "pending", medicines |-> [i \in 1..n |-> "pending"],
   snoozedUntil |-> None, missedAt |-> None, notificationSent |-> FALSE,
   notificationCount |-> 0, parentNotified |-> FALSE, repeat |-> rep,
   scheduleEnd |-> end, daysOfWeek |-> {}, daysOfMonth |-> {},
   repeatInterval |-> 1, repeatUnit |-> "days"]

(* A document removed by deleteOne(): its _id is never given out again *)
DeletedReminder == [NoReminder EXCEPT !.user = "deleted"]

NoOp == [op |-> "none", rid |-> 0, res |-> "none", at |-> None, arg |-> ""]

Op(o, r, res) == [NoOp EXCEPT !.op = o, !.rid = r, !.res = res]

----------------------------------------------------------------------------
(* Job of a Bull queue.  dueAt = timestamp + delay; Bull clamps a negative *)
(* delay to 0.  fireAt is the reminderTime the caller asked for.  No code  *)
(* reads a job's id, so a queue is the bag of its jobs' contents.          *)

Job(rid, delay, fireAt) ==
  [rid |-> rid, dueAt |-> now + Max(0, delay), fireAt |-> fireAt,
   attemptsMade |-> 0]

(* No missed-check job is being processed *)
NoCheck ==
  [active |-> FALSE,
   job |-> [rid |-> 0, dueAt |-> 0, fireAt |-> 0, attemptsMade |-> 0],
   seen |-> NoReminder]

JobsOf(q, rid) == {j \in BagToSet(q) : j.rid = rid}

Add(q, j) == q (+) SetToBag({j})

Remove(q, j) == q (-) SetToBag({j})

----------------------------------------------------------------------------
(* Date arithmetic of the JavaScript Date object, on minutes since         *)
(* 1970-01-01T00:00 (a Thursday), server time zone UTC.                    *)

SetMin(S) == CHOOSE x \in S : \A y \in S : x <= y

DaysFromCivil(y0, m, d) ==
  LET y == IF m <= 2 THEN y0 - 1 ELSE y0
      era == y \div 400
      yoe == y - era * 400
      mp == IF m > 2 THEN m - 3 ELSE m + 9
      doy == (153 * mp + 2) \div 5 + d - 1
      doe == yoe * 365 + yoe \div 4 - yoe \div 100 + doy
  IN era * 146097 + doe - 719468

CivilFromDays(z0) ==
  LET z == z0 + 719468
      era == z \div 146097
      doe == z - era * 146097
      yoe == (doe - doe \div 1460 + doe \div 36524 - doe \div 146096) \div 365
      doy == doe - (365 * yoe + yoe \div 4 - yoe \div 100)
      mp == (5 * doy + 2) \div 153
      d == doy - (153 * mp + 2) \div 5 + 1
      m == IF mp < 10 THEN mp + 3 ELSE mp - 9
      y == yoe + era * 400 + (IF m <= 2 THEN 1 ELSE 0)
  IN [year |-> y, month |-> m - 1, date |-> d]

getDay(t) == ((t \div DayMinutes) + 4) % 7

getDate(t) == CivilFromDays(t \div DayMinutes).date

getMonth(t) == CivilFromDays(t \div DayMinutes).month

getFullYear(t) == CivilFromDays(t \div DayMinutes).year

MinuteOfDay(t) == t % DayMinutes

(* new Date(year, monthIndex, day, hours, minutes): a month index or a day *)
(* out of range carries over into the following months.                    *)
MakeDate(year, monthIndex, day, minuteOfDay) ==
  (DaysFromCivil(year + (monthIndex \div 12), (monthIndex % 12) + 1, 1)
     + (day - 1)) * DayMinutes + minuteOfDay

setMonth(t, monthIndex) ==
  MakeDate(getFullYear(t), monthIndex, getDate(t), MinuteOfDay(t))

(* A weekly search that also accepts the current day of the week *)
calculateNextTimeInclusive(reminder) ==
  LET currentTime == reminder.time
  IN IF reminder.repeat = "weekly" /\ reminder.daysOfWeek # {}
     THEN LET currentDayOfWeek == getDay(currentTime)
              later == {day \in reminder.daysOfWeek : day >= currentDayOfWeek}
          IN IF later # {}
             THEN currentTime + (SetMin(later) - currentDayOfWeek) * DayMinutes
             ELSE currentTime
                    + (7 - currentDayOfWeek + SetMin(reminder.daysOfWeek)) * DayMinutes
     ELSE IF reminder.repeat = "weekly" THEN currentTime + 7 * DayMinutes
     ELSE currentTime + DayMinutes

calculateNextTime(reminder) ==
  LET currentTime == reminder.time
  IN CASE reminder.repeat = "daily" -> currentTime + DayMinutes
       [] reminder.repeat = "weekly" ->
            IF reminder.daysOfWeek # {}
            THEN LET currentDayOfWeek == getDay(currentTime)
                     later == {day \in reminder.daysOfWeek : day > currentDayOfWeek}
                 IN IF later # {}
                    THEN currentTime + (SetMin(later) - currentDayOfWeek) * DayMinutes
                    ELSE currentTime
                           + (7 - currentDayOfWeek + SetMin(reminder.daysOfWeek)) * DayMinutes
            ELSE currentTime + 7 * DayMinutes
       [] reminder.repeat = "monthly" ->
            IF reminder.daysOfMonth # {}
            THEN LET currentDay == getDate(currentTime)
                     later == {day \in reminder.daysOfMonth : day > currentDay}
                 IN IF later # {}
                    THEN MakeDate(getFullYear(currentTime), getMonth(currentTime),
                                  SetMin(later), MinuteOfDay(currentTime))
                    ELSE MakeDate(getFullYear(currentTime), getMonth(currentTime) + 1,
                                  SetMin(reminder.daysOfMonth), MinuteOfDay(currentTime))
            ELSE setMonth(currentTime, getMonth(currentTime) + 1)
       [] reminder.repeat = "custom" ->
            CASE reminder.repeatUnit = "hours" -> currentTime + 60 * reminder.repeatInterval
              [] reminder.repeatUnit = "days" -> currentTime + DayMinutes * reminder.repeatInterval
              [] reminder.repeatUnit = "weeks" -> currentTime + 7 * DayMinutes * reminder.repeatInterval
              [] reminder.repeatUnit = "months" ->
                   setMonth(currentTime, getMonth(currentTime) + reminder.repeatInterval)
              [] OTHER -> currentTime
       [] OTHER -> currentTime

----------------------------------------------------------------------------
(* scheduleReminder(reminderId, reminderTime) *)

(* A boundary slip: a time equal to the clock counts as still to come *)
IsPastStrict(reminderTime) == reminderTime < now

IsPast(reminderTime) == reminderTime <= now

scheduleReminder(q, nid, rid, reminderTime) ==
  IF IsPast(reminderTime)
  THEN [q |-> q, next |-> nid, ok |-> FALSE]
  ELSE [q |-> Add(q, Job(rid, reminderTime - now - ISTOffsetMinutes,
                         reminderTime)),
        next |-> nid + 1, ok |-> TRUE]

(* The effective time scheduleRemindersInRange passes on *)
EffectiveTime(reminder) ==
  IF reminder.status = "snoozed" /\ reminder.snoozedUntil # None
  THEN reminder.snoozedUntil
  ELSE reminder.time

(* Reminder.find(query).sort({ time: 1 }) over the collection docs *)
InRange(docs, startDate, endDate) ==
  {r \in Ids : /\ docs[r].exists
               /\ docs[r].time >= startDate
               /\ docs[r].time <= endDate
               /\ docs[r].active
               /\ docs[r].status \in {"pending", "snoozed"}}

RECURSIVE SortByTime(_, _)
SortByTime(docs, S) ==
  IF S = {} THEN <<>>
  ELSE LET first == CHOOSE r \in S : \A o \in S :
                       \/ docs[r].time < docs[o].time
                       \/ docs[r].time = docs[o].time /\ r <= o
       IN <<first>> \o SortByTime(docs, S \ {first})

RECURSIVE ScheduleEach(_, _, _, _, _)
ScheduleEach(docs, found, q, nid, total) ==
  IF found = <<>> THEN [q |-> q, next |-> nid, total |-> total]
  ELSE LET rid == Head(found)
           reminderTime == EffectiveTime(docs[rid])
       IN IF reminderTime > now
          THEN LET s == scheduleReminder(q, nid, rid, reminderTime)
               IN ScheduleEach(docs, Tail(found), s.q, s.next, total + 1)
          ELSE ScheduleEach(docs, Tail(found), q, nid, total)

(* A refresh that cancels every scheduled job before it schedules anew *)
scheduleRemindersInEmptied(docs, startDate, endDate) ==
  ScheduleEach(docs, SortByTime(docs, InRange(docs, startDate, endDate)),
               EmptyBag, nextJobId, 0)

scheduleRemindersIn(docs, startDate, endDate) ==
  ScheduleEach(docs, SortByTime(docs, InRange(docs, startDate, endDate)),
               reminderQueue, nextJobId, 0)

scheduleRemindersInRange(startDate, endDate) ==
  scheduleRemindersIn(reminders, startDate, endDate)

----------------------------------------------------------------------------
(* Initial state: one reminder, created through the API and still pending. *)
(* Its owner is u1 (who has a guardian) or u2 (who has none).              *)

(* A one-off reminder, a daily series that ends exactly one day after the  *)
(* near reminder time, and a daily series without an end date.             *)
RepeatChoices ==
  {[repeat |-> "none", scheduleEnd |-> None],
   [repeat |-> "daily", scheduleEnd |-> DayMinutes + NearTime],
   [repeat |-> "daily", scheduleEnd |-> None]}

Init ==
  /\ now = 0
  /\ \E u \in Users, t \in {NearTime, FarTime}, rep \in RepeatChoices :
       reminders =
         [r \in Ids |->
            IF r = 1 THEN NewReminder(u, t, MaxItems, rep.repeat, rep.scheduleEnd)
            ELSE NoReminder]
  /\ reminderQueue = EmptyBag
  /\ missedDoseQueue = EmptyBag
  /\ nextJobId = 1
  /\ dispatched = [r \in Ids |-> 0]
  /\ guardianNotified = [r \in Ids |-> 0]
  /\ lastOp = NoOp
  /\ apiCalls = 0
  /\ checking = NoCheck

----------------------------------------------------------------------------
(* The queue after a processor call returned.  Bull re-queues a job only   *)
(* when the processor's promise rejects and attempts are left; with        *)
(* removeOnComplete a resolved job is removed.                             *)

Pow2(n) == IF n = 0 THEN 1 ELSE IF n = 1 THEN 2 ELSE 4

Settle(rest, j, rejected) ==
  IF rejected /\ j.attemptsMade + 1 < Attempts
  THEN Add(rest, [j EXCEPT !.attemptsMade = @ + 1,
                            !.dueAt = now + (Pow2(j.attemptsMade + 1) - 1) * BackoffMinutes])
  ELSE rest

(* Both processors wrap their whole body in try/catch and return           *)
(* { success: false, error } from the catch: the promise never rejects.    *)
(* A processor that lets a failure of notifyParent through *)
RejectsOnParentFailure(fault) == fault = "parent_fail"

(* A processor without the catch: a failed read or write rejects *)
RejectsOnError(fault) == fault \in {"read_fail", "write_fail"}

ProcessorRejects(fault) == FALSE

----------------------------------------------------------------------------
(* initializeReminders(): startup, hourly and daily refresh *)

InitializeReminders ==
  LET s == scheduleRemindersInRange(now, now + HorizonMinutes)
  IN /\ s.next <= MaxJobs + 1
     /\ reminderQueue' = s.q
     /\ nextJobId' = s.next
     /\ lastOp' = [Op("initialize", 0, "ok") EXCEPT !.at = s.total]
     /\ UNCHANGED <<checking, now, reminders, missedDoseQueue,
                    dispatched, guardianNotified, apiCalls>>

----------------------------------------------------------------------------
(* initializeApp(): the start of the process.  The jobs of both queues are *)
(* kept in Redis and initializeQueues() only opens the queues, so they are *)
(* as the stopped process left them.  removeDuplicateReminders(1, 1, true) *)
(* is started without await, so the query of initializeReminders() reads   *)
(* the collection before or after the duplicates are deleted.              *)

Existing == {r \in Ids : reminders[r].exists}

Duplicates(r) ==
  {o \in Existing : /\ reminders[o].time = reminders[r].time
                    /\ reminders[o].user = reminders[r].user}

(* One document of every group of equal time and user is kept *)
KeepChoices ==
  {K \in SUBSET Existing :
     \A r \in Existing : Cardinality(K \cap Duplicates(r)) = 1}

removeDuplicateReminders(K) ==
  [r \in Ids |-> IF r \in Existing \ K THEN DeletedReminder ELSE reminders[r]]

initializeApp(K, readsFirst) ==
  LET cleaned == removeDuplicateReminders(K)
      s == scheduleRemindersIn(IF readsFirst THEN reminders ELSE cleaned,
                               now, now + HorizonMinutes)
  IN /\ s.next <= MaxJobs + 1
     /\ reminders' = cleaned
     /\ reminderQueue' = s.q
     /\ nextJobId' = s.next
     /\ lastOp' = [Op("restart", 0, "ok") EXCEPT !.at = s.total]
     /\ UNCHANGED <<checking, now, missedDoseQueue, dispatched, guardianNotified, apiCalls>>

----------------------------------------------------------------------------
(* scheduleUserReminders(userId), called by POST /api/reminders/schedule/user *)

(* addHoursToDate(h): setHours(getHours() + h) keeps only the whole hours   *)
(* of its argument; h is given here in tenths of an hour.                   *)
addHoursToDate(tenths) == now + 60 * (tenths \div 10)

(* The third argument, userId, is not a parameter of                        *)
(* scheduleRemindersInRange and its query has no user condition.            *)
scheduleUserReminders(userId) ==
  LET s == scheduleRemindersInRange(now, addHoursToDate(UserRangeTenths))
  IN /\ apiCalls < MaxApiCalls
     /\ apiCalls' = apiCalls + 1
     /\ s.next <= MaxJobs + 1
     /\ reminderQueue' = s.q
     /\ nextJobId' = s.next
     /\ lastOp' = [Op("scheduleUser", 0, userId) EXCEPT !.at = s.total]
     /\ UNCHANGED <<checking, now, reminders, missedDoseQueue,
                    dispatched, guardianNotified>>

----------------------------------------------------------------------------
(* reminderQueue.process: the fire handler *)

FireFaults == {"ok", "read_fail", "write_fail", "recur_fail"}

(* scheduleMissedDoseCheck(reminder): the delay of the added job *)
MissedCheckDelay(reminder) ==
  LET checkTime == reminder.time + GraceMinutes
  IN IF checkTime <= now + BufferMinutes
     THEN GraceMinutes
     ELSE checkTime - now

FreeIds == {r \in Ids : reminders[r] = NoReminder}

WantsRecurrence(reminder) ==
  reminder.repeat # "none" /\ reminder.scheduleEnd # None

(* The end date compared with the time of the firing reminder *)
CreatesNextByCurrent(reminder) ==
  ~(reminder.scheduleEnd # None /\ reminder.time > reminder.scheduleEnd)

(* scheduleNextRecurrence(reminder): whether a successor is created *)
CreatesNext(reminder) ==
  ~(reminder.scheduleEnd # None /\ calculateNextTime(reminder) > reminder.scheduleEnd)

(* new Reminder({ medicine, user, ..., time: nextTime, ..., active: true }): *)
(* the constructor is given the single medicine reference and no medicines  *)
(* list, so the list of the new document is the empty default; status,      *)
(* missedAt and the notification flags are the schema defaults.             *)
NextOccurrence(reminder) ==
  [reminder EXCEPT !.time = calculateNextTime(reminder),
                   !.status = "pending",
                   !.medicines = <<>>,
                   !.snoozedUntil = None, !.missedAt = None,
                   !.notificationSent = FALSE, !.notificationCount = 0,
                   !.parentNotified = FALSE, !.active = TRUE]

(* A weaker guard: the status of the reminder is not looked at *)
ShouldFireIfActive(reminder) == reminder.active

(* The fired reminder after scheduleNextRecurrence(reminder) returned.  The *)
(* update that marked it missed at the end of its series is commented out  *)
(* in the source: nothing is written to it.                                *)
MarkedMissedAtEnd(reminder, created) ==
  IF created THEN reminder
  ELSE [reminder EXCEPT !.status = "missed", !.missedAt = now]

AfterRecurrence(reminder, created) == reminder

ShouldFire(reminder) == reminder.active /\ reminder.status = "pending"

(* A lookup that is taken to have found a document whatever it returned *)
FoundAlways(reminder) == TRUE

(* if (!reminder) return: Reminder.findById gave a document *)
Found(reminder) == reminder.exists

FireJob(j, fault) ==
  /\ BagIn(j, reminderQueue)
  /\ j.dueAt <= now
  /\ LET rid == j.rid
         reminder == reminders[rid]
         rest == Settle(Remove(reminderQueue, j), j, ProcessorRejects(fault))
         done(res) == [Op("fire", rid, res) EXCEPT !.at = j.fireAt]
     IN IF fault = "read_fail" \/ ~Found(reminder) \/ ~ShouldFire(reminder)
        THEN /\ reminderQueue' = rest
             /\ lastOp' = done(IF fault = "read_fail" THEN "error"
                               ELSE IF ~reminder.exists THEN "not_found"
                               ELSE "skipped")
             /\ UNCHANGED <<checking, now, reminders, missedDoseQueue, nextJobId,
                            dispatched, guardianNotified, apiCalls>>
        ELSE LET sent == IF fault = "write_fail" THEN reminder
                         ELSE [reminder EXCEPT
                                 !.notificationSent = TRUE,
                                 !.notificationCount = reminder.notificationCount + 1]
                 recur == /\ WantsRecurrence(reminder)
                          /\ CreatesNext(reminder)
                          /\ fault # "recur_fail"
                 fired == IF WantsRecurrence(reminder) /\ fault # "recur_fail"
                          THEN AfterRecurrence(sent, CreatesNext(reminder))
                          ELSE sent
                 newId == SetMin(FreeIds)
                 s == scheduleReminder(rest, nextJobId, newId,
                                       calculateNextTime(reminder))
             IN /\ recur => (FreeIds # {} /\ nextJobId <= MaxJobs)
                /\ dispatched' = [dispatched EXCEPT ![rid] = @ + 1]
                /\ missedDoseQueue' =
                     Add(missedDoseQueue, Job(rid, MissedCheckDelay(reminder),
                                              now + MissedCheckDelay(reminder)))
                /\ IF recur
                   THEN /\ reminders' = [reminders EXCEPT
                                           ![rid] = fired,
                                           ![newId] = NextOccurrence(reminder)]
                        /\ reminderQueue' = s.q
                        /\ nextJobId' = s.next
                   ELSE /\ reminders' = [reminders EXCEPT ![rid] = fired]
                        /\ reminderQueue' = rest
                        /\ UNCHANGED nextJobId
                /\ lastOp' = done("sent")
                /\ UNCHANGED <<checking, now, guardianNotified, apiCalls>>

----------------------------------------------------------------------------
(* missedDoseQueue.process: the missed-check handler *)

MissedFaults == {"ok", "read_fail", "write_fail", "parent_fail", "flag_fail"}

(* A weaker re-check: only a completed reminder is left alone *)
NotCompleted(reminder) == reminder.status # "completed"

(* A re-check on the items instead of the aggregate *)
HasPendingItem(reminder) ==
  \E i \in DOMAIN reminder.medicines : reminder.medicines[i] = "pending"

StillPending(reminder) == reminder.status = "pending"

(* The handler from its re-check on: reminder is the document that its    *)
(* findById returned.  findByIdAndUpdate sets the two fields in whatever   *)
(* document the collection holds at the time of the write.                 *)
ProcessMissedDose(j, reminder, fault) ==
  LET rid == j.rid
      rest == Settle(Remove(missedDoseQueue, j), j, ProcessorRejects(fault))
      done(res) == [Op("missed", rid, res) EXCEPT !.at = j.fireAt]
      escalate == /\ fault \notin {"read_fail", "write_fail"}
                  /\ Found(reminder)
                  /\ StillPending(reminder)
      notify == /\ escalate
                /\ ParentOf(reminder.user) # "none"
                /\ ~reminder.parentNotified
                /\ fault # "parent_fail"
  IN /\ missedDoseQueue' = rest
     /\ reminders' =
          IF escalate
          THEN [reminders EXCEPT
                  ![rid] = [reminders[rid] EXCEPT
                              !.status = "missed",
                              !.missedAt = now,
                              !.parentNotified =
                                 IF notify /\ fault # "flag_fail" THEN TRUE ELSE @]]
          ELSE reminders
     /\ guardianNotified' =
          IF notify THEN [guardianNotified EXCEPT ![rid] = @ + 1]
          ELSE guardianNotified
     /\ lastOp' = done(IF fault = "read_fail" THEN "error"
                       ELSE IF ~reminder.exists THEN "not_found"
                       ELSE IF ~StillPending(reminder) THEN "skipped"
                       ELSE IF fault = "write_fail" THEN "error"
                       ELSE "missed")
     /\ UNCHANGED <<now, reminderQueue, nextJobId, dispatched, apiCalls>>

(* The handler as one step: no other operation runs between its read and   *)
(* its write.                                                              *)
MissedJob(j, fault) ==
  /\ BagIn(j, missedDoseQueue)
  /\ j.dueAt <= now
  /\ ~checking.active
  /\ ProcessMissedDose(j, reminders[j.rid], fault)
  /\ UNCHANGED checking

(* The handler in two steps.  It awaits findById, then findByIdAndUpdate;  *)
(* a request of the API layer can be served between the two.  Bull runs    *)
(* one job of a queue at a time (no concurrency argument is given).        *)
MissedRead(j) ==
  /\ BagIn(j, missedDoseQueue)
  /\ j.dueAt <= now
  /\ ~checking.active
  /\ checking' = [active |-> TRUE, job |-> j, seen |-> reminders[j.rid]]
  /\ UNCHANGED <<now, reminders, reminderQueue, missedDoseQueue, nextJobId,
                 dispatched, guardianNotified, lastOp, apiCalls>>

MissedWrite(fault) ==
  /\ checking.active
  /\ ProcessMissedDose(checking.job, checking.seen, fault)
  /\ checking' = NoCheck

----------------------------------------------------------------------------
(* ReminderSchema.pre("save"): the aggregate status from the item statuses *)

AllTaken(statuses) == \A i \in DOMAIN statuses : statuses[i] = "taken"

SomeTaken(statuses) == \E i \in DOMAIN statuses : statuses[i] = "taken"

SomeMissed(statuses) == \E i \in DOMAIN statuses : statuses[i] = "missed"

preSave(doc) ==
  LET statuses == doc.medicines
  IN IF AllTaken(statuses) THEN [doc EXCEPT !.status = "completed"]
     ELSE IF SomeTaken(statuses) /\ ~AllTaken(statuses)
          THEN [doc EXCEPT !.status = "partially_completed"]
     ELSE IF SomeMissed(statuses) THEN [doc EXCEPT !.status = "missed"]
     ELSE doc

(* markMedicineAsTaken, between the index check and reminder.save() *)
TakenUpdate(reminder, medicineIndex) ==
  LET marked == [reminder EXCEPT !.medicines[medicineIndex + 1] = "taken"]
      statuses == marked.medicines
  IN IF AllTaken(statuses)
     THEN [marked EXCEPT !.status = "completed", !.missedAt = None]
     ELSE IF SomeTaken(statuses)
          THEN IF SomeMissed(statuses)
               THEN [marked EXCEPT !.status = "partially_completed"]
               ELSE [marked EXCEPT !.status = "partially_completed",
                                   !.missedAt = None]
     ELSE marked

(* markMedicineAsMissed, between the index check and reminder.save() *)
MissedUpdate(reminder, medicineIndex) ==
  LET marked == [reminder EXCEPT !.medicines[medicineIndex + 1] = "missed"]
  IN IF SomeMissed(marked.medicines)
     THEN [marked EXCEPT !.status = "missed"]
     ELSE marked

(* req.params.medicineIndex is the text of the route segment.  The two     *)
(* comparisons of the index check convert it with ToNumber, and a          *)
(* comparison with NaN is false.                                           *)
IndexParams == {ToString(i) : i \in -1..MaxItems} \cup {"abc"}

ToNumber(param) ==
  IF \E i \in -1..MaxItems : ToString(i) = param
  THEN [nan |-> FALSE, value |-> CHOOSE i \in -1..MaxItems : ToString(i) = param]
  ELSE [nan |-> TRUE, value |-> 0]

ValidIndex(reminder, medicineIndex) ==
  LET n == ToNumber(medicineIndex)
  IN ~((~n.nan /\ n.value < 0) \/ (~n.nan /\ n.value >= Len(reminder.medicines)))

(* reminder.medicines[medicineIndex] is an element only for the text of an *)
(* array index; otherwise it is undefined                                  *)
IsElement(reminder, medicineIndex) ==
  \E i \in 0..(Len(reminder.medicines) - 1) : ToString(i) = medicineIndex

MarkOp(name, rid, medicineIndex) ==
  LET reminder == reminders[rid]
      update(doc, index) == IF name = "markTaken" THEN TakenUpdate(doc, index)
                            ELSE MissedUpdate(doc, index)
      late == reminder.status = "missed" /\ reminder.missedAt # None
      result == [Op(name, rid, IF late THEN "late" ELSE "ok")
                   EXCEPT !.arg = medicineIndex]
  IN /\ apiCalls < MaxApiCalls
     /\ apiCalls' = apiCalls + 1
     /\ IF ~reminder.exists
        THEN /\ lastOp' = [result EXCEPT !.res = "not_found"]
             /\ UNCHANGED reminders
        ELSE IF ~ValidIndex(reminder, medicineIndex)
        THEN /\ lastOp' = [result EXCEPT !.res = "invalid_index"]
             /\ UNCHANGED reminders
        ELSE IF ~IsElement(reminder, medicineIndex)
        THEN (* TypeError on .status of undefined: the catch answers 500 *)
             /\ lastOp' = [result EXCEPT !.res = "server_error"]
             /\ UNCHANGED reminders
        ELSE /\ reminders' = [reminders EXCEPT
                                ![rid] = preSave(update(reminder,
                                                        ToNumber(medicineIndex).value))]
             /\ lastOp' = result
     /\ UNCHANGED <<checking, now, reminderQueue, missedDoseQueue, nextJobId,
                    dispatched, guardianNotified>>

markMedicineAsTaken(rid, medicineIndex) ==
  MarkOp("markTaken", rid, medicineIndex)

markMedicineAsMissed(rid, medicineIndex) ==
  MarkOp("markMissed", rid, medicineIndex)

----------------------------------------------------------------------------
(* cancelReminder(reminderId): removes the jobs of the reminder from the   *)
(* fire queue, then from the missed-check queue.  getJobs lists the        *)
(* delayed jobs, then the active ones, then the waiting ones; job.remove() *)
(* of an active (locked) job throws, and the catch ends the whole call.    *)
(* executing says in which queue a job of the reminder is being processed  *)
(* at the time of the call.                                                *)

ExecutingChoices(rid) ==
  {"none"}
    \cup {"fire" : j \in {x \in JobsOf(reminderQueue, rid) : x.dueAt <= now}}
    \cup {"missed" : j \in {x \in JobsOf(missedDoseQueue, rid) : x.dueAt <= now}}

removeJobs(q, rid, hasActive) ==
  [j \in {x \in BagToSet(q) : x.rid # rid \/ (hasActive /\ x.dueAt <= now)}
     |-> q[j]]

cancelReminder(rid, executing) ==
  [reminderQueue |-> removeJobs(reminderQueue, rid, executing = "fire"),
   missedDoseQueue |->
     IF executing = "fire" THEN missedDoseQueue
     ELSE removeJobs(missedDoseQueue, rid, executing = "missed"),
   ok |-> executing = "none"]

(* updateReminder with only the active flag in the request body: the      *)
(* document is rewritten with findByIdAndUpdate, no job is touched.        *)
updateReminder(rid, active) ==
  LET reminder == reminders[rid]
  IN /\ apiCalls < MaxApiCalls
     /\ apiCalls' = apiCalls + 1
     /\ IF ~reminder.exists
        THEN /\ lastOp' = Op("update", rid, "not_found")
             /\ UNCHANGED reminders
        ELSE /\ reminders' = [reminders EXCEPT ![rid].active = active]
             /\ lastOp' = Op("update", rid, "ok")
     /\ UNCHANGED <<checking, now, reminderQueue, missedDoseQueue, nextJobId,
                    dispatched, guardianNotified>>

(* deleteReminder: cancelReminder(id), then reminder.deleteOne() *)
deleteReminder(rid, executing) ==
  LET reminder == reminders[rid]
      c == cancelReminder(rid, executing)
  IN /\ apiCalls < MaxApiCalls
     /\ apiCalls' = apiCalls + 1
     /\ IF ~reminder.exists
        THEN /\ lastOp' = Op("delete", rid, "not_found")
             /\ UNCHANGED <<reminders, reminderQueue, missedDoseQueue>>
        ELSE /\ reminderQueue' = c.reminderQueue
             /\ missedDoseQueue' = c.missedDoseQueue
             /\ reminders' = [reminders EXCEPT ![rid] = DeletedReminder]
             /\ lastOp' = Op("delete", rid,
                            IF executing = "none" THEN "ok"
                            ELSE "ok_while_executing")
     /\ UNCHANGED <<checking, now, nextJobId, dispatched, guardianNotified>>

(* snoozeReminder: the controller, then queueService.snoozeReminder *)
SnoozeChoices == {0, DefaultSnoozeMinutes}

snoozeReminder(rid, minutes, executing) ==
  LET reminder == reminders[rid]
      snoozedUntil == now + minutes
      c == cancelReminder(rid, executing)
      s == scheduleReminder(c.reminderQueue, nextJobId, rid, snoozedUntil)
  IN /\ apiCalls < MaxApiCalls
     /\ apiCalls' = apiCalls + 1
     /\ IF ~reminder.exists
        THEN /\ lastOp' = Op("snooze", rid, "not_found")
             /\ UNCHANGED <<reminders, reminderQueue, missedDoseQueue, nextJobId>>
        ELSE /\ s.next <= MaxJobs + 1
             /\ reminders' = [reminders EXCEPT
                                ![rid] = [reminder EXCEPT
                                            !.status = "snoozed",
                                            !.snoozedUntil = snoozedUntil]]
             /\ reminderQueue' = s.q
             /\ nextJobId' = s.next
             /\ missedDoseQueue' = c.missedDoseQueue
             /\ lastOp' = Op("snooze", rid,
                            IF ~s.ok THEN "skipped_past"
                            ELSE IF JobsOf(reminderQueue, rid) # {} THEN "rescheduled"
                            ELSE "scheduled")
     /\ UNCHANGED <<checking, now, dispatched, guardianNotified>>

----------------------------------------------------------------------------
(* The clock *)

Tick ==
  /\ now < MaxTime
  /\ now' = now + 1
  /\ UNCHANGED <<checking, reminders, reminderQueue, missedDoseQueue, nextJobId,
                 dispatched, guardianNotified, lastOp, apiCalls>>

Delayed ==
  {j \in BagToSet(reminderQueue) \cup BagToSet(missedDoseQueue) : j.dueAt > now}

(* Nothing happens until the next delayed job falls due *)
AdvanceClock ==
  /\ Delayed # {}
  /\ now' = SetMin({j.dueAt : j \in Delayed})
  /\ UNCHANGED <<checking, reminders, reminderQueue, missedDoseQueue, nextJobId,
                 dispatched, guardianNotified, lastOp, apiCalls>>

----------------------------------------------------------------------------

Fire == \E j \in BagToSet(reminderQueue) : \E fault \in FireFaults : FireJob(j, fault)

MissedCheck == \E j \in BagToSet(missedDoseQueue) : \E fault \in MissedFaults : MissedJob(j, fault)

MarkTaken ==
  \E rid \in Ids : \E medicineIndex \in IndexParams :
    markMedicineAsTaken(rid, medicineIndex)

MarkMissed ==
  \E rid \in Ids : \E medicineIndex \in IndexParams :
    markMedicineAsMissed(rid, medicineIndex)

Snooze ==
  \E rid \in Ids : \E minutes \in SnoozeChoices :
    \E executing \in ExecutingChoices(rid) : snoozeReminder(rid, minutes, executing)

ScheduleUser == \E userId \in Users : scheduleUserReminders(userId)

Update == \E rid \in Ids : \E active \in BOOLEAN : updateReminder(rid, active)

Delete ==
  \E rid \in Ids : \E executing \in ExecutingChoices(rid) :
    deleteReminder(rid, executing)

Next ==
  \/ InitializeReminders
  \/ Fire
  \/ MissedCheck
  \/ MarkTaken
  \/ MarkMissed
  \/ Snooze
  \/ ScheduleUser
  \/ Update
  \/ Delete
  \/ Tick
  \/ AdvanceClock

Spec == Init /\ [][Next]_vars

(* The engine alone: no user acts on any reminder *)
EngineNext ==
  \/ InitializeReminders
  \/ Fire
  \/ MissedCheck
  \/ Tick
  \/ AdvanceClock

EngineSpec ==
  /\ Init
  /\ [][EngineNext]_vars
  /\ WF_vars(Fire)
  /\ WF_vars(MissedCheck)
  /\ WF_vars(AdvanceClock)

Restart == \E K \in KeepChoices : \E readsFirst \in BOOLEAN : initializeApp(K, readsFirst)

(* The engine with restarts of the process *)
RestartNext ==
  \/ Restart
  \/ InitializeReminders
  \/ Fire
  \/ MissedCheck
  \/ Tick
  \/ AdvanceClock

RestartSpec ==
  /\ Init
  /\ [][RestartNext]_vars
  /\ WF_vars(Fire)
  /\ WF_vars(MissedCheck)
  /\ WF_vars(AdvanceClock)

(* The queue service alone: its handlers, its refresh and its snooze; no   *)
(* request marks an item.                                                  *)
QueueNext ==
  \/ InitializeReminders
  \/ Fire
  \/ MissedCheck
  \/ Snooze
  \/ Tick
  \/ AdvanceClock

QueueSpec == Init /\ [][QueueNext]_vars

(* A one-off reminder whose items the user marks taken while its jobs run *)
TakenInit ==
  /\ Init
  /\ reminders[1].repeat = "none"
  /\ reminders[1].time = NearTime

TakenNext ==
  \/ InitializeReminders
  \/ Fire
  \/ MissedCheck
  \/ MarkTaken
  \/ AdvanceClock

TakenSpec == TakenInit /\ [][TakenNext]_vars

(* The two handlers with reminders that are switched on and off *)
ActiveNext ==
  \/ InitializeReminders
  \/ Fire
  \/ MissedCheck
  \/ Update
  \/ Tick
  \/ AdvanceClock

ActiveSpec == Init /\ [][ActiveNext]_vars

(* The two handlers with reminders that their owners delete *)
DeleteNext ==
  \/ InitializeReminders
  \/ Fire
  \/ MissedCheck
  \/ Delete
  \/ Tick
  \/ AdvanceClock

DeleteSpec == Init /\ [][DeleteNext]_vars

(* A one-off reminder whose items the user marks taken while the          *)
(* missed-check handler is between its read and its write                  *)
MissedCheckRead == \E j \in BagToSet(missedDoseQueue) : MissedRead(j)

MissedCheckWrite == \E fault \in MissedFaults : MissedWrite(fault)

RaceNext ==
  \/ InitializeReminders
  \/ Fire
  \/ MissedCheckRead
  \/ MissedCheckWrite
  \/ MarkTaken
  \/ AdvanceClock

RaceSpec == TakenInit /\ [][RaceNext]_vars

----------------------------------------------------------------------------
(* C1: scheduleReminder never adds a fire job whose reminderTime is at or  *)
(* before the clock at the moment of scheduling; a call with such a time   *)
(* adds no job at all.                                                     *)
C1_NoPastJobEnqueued ==
  [][/\ \A j \in BagToSet(reminderQueue') :
          (j.attemptsMade = 0
             /\ CopiesIn(j, reminderQueue') > CopiesIn(j, reminderQueue))
            => j.fireAt > now
     /\ (lastOp'.op = "snooze" /\ lastOp'.res = "skipped_past"
           /\ reminderQueue' # reminderQueue)
          => \A j \in BagToSet(reminderQueue') :
               CopiesIn(j, reminderQueue') <= CopiesIn(j, reminderQueue)]_vars

(* A snooze whose time is not after the clock returned without a job *)
C1_Witness ==
  /\ lastOp.op = "snooze"
  /\ lastOp.res = "skipped_past"
  /\ reminders[lastOp.rid].snoozedUntil = now
  /\ JobsOf(reminderQueue, lastOp.rid) = {}

(* C2: a fire job never dispatches the notification before the reminderTime *)
(* it was scheduled for: when the handler sends, the clock has reached it.  *)
C2_NoEarlyFire ==
  (lastOp.op = "fire" /\ lastOp.res = "sent") => now >= lastOp.at

(* C3: a reminder that was never snoozed gets at most one reminder          *)
(* notification, however often it was scheduled before it fired.           *)
C3_AtMostOneDispatch ==
  \A r \in Ids :
    (reminders[r].exists /\ reminders[r].snoozedUntil = None)
      => dispatched[r] <= 1

(* C4: with no user action and fair job execution, a pending reminder whose *)
(* notification went out eventually becomes missed, and its guardian, if    *)
(* the owner has one, has then been notified exactly once.                  *)
C4_EventuallyMissed ==
  \A r \in Ids :
    (reminders[r].exists /\ reminders[r].active
       /\ reminders[r].status = "pending" /\ dispatched[r] >= 1)
      ~> (/\ reminders[r].status = "missed"
          /\ guardianNotified[r] =
               IF ParentOf(reminders[r].user) # "none" THEN 1 ELSE 0)

(* C5: however often the missed-check handler runs for a reminder, the      *)
(* guardian is notified at most once, and parentNotified is set only        *)
(* together with that one notification.                                     *)
C5_GuardianAtMostOnce ==
  \A r \in Ids :
    /\ guardianNotified[r] <= 1
    /\ reminders[r].parentNotified => guardianNotified[r] = 1

(* The handler ran again for a reminder whose guardian had been notified *)
C5_Witness ==
  /\ lastOp.op = "missed"
  /\ lastOp.res = "skipped"
  /\ reminders[lastOp.rid].parentNotified
  /\ guardianNotified[lastOp.rid] = 1

(* C6: after a fire or missed-check handler failed on its first attempt,    *)
(* the job is back in its queue for another attempt.                        *)
C6_FailedJobRetried ==
  /\ (lastOp.op = "fire" /\ lastOp.res = "error")
       => \E j \in JobsOf(reminderQueue, lastOp.rid) : j.attemptsMade >= 1
  /\ (lastOp.op = "missed" /\ lastOp.res = "error")
       => \E j \in JobsOf(missedDoseQueue, lastOp.rid) : j.attemptsMade >= 1

(* C7: when snooze returns for a reminder that had an outstanding fire job, *)
(* the reminder is snoozed and exactly one fire job is left for it, due at  *)
(* snoozedUntil.                                                            *)
C7_SnoozeReschedules ==
  (lastOp.op = "snooze" /\ lastOp.res = "rescheduled")
    => LET reminder == reminders[lastOp.rid]
           jobs == JobsOf(reminderQueue, lastOp.rid)
       IN /\ reminder.status = "snoozed"
          /\ reminder.snoozedUntil # None
          /\ \E j \in jobs : /\ jobs = {j}
                             /\ CopiesIn(j, reminderQueue) = 1
                             /\ j.dueAt = reminder.snoozedUntil

(* C8: the fire job rescheduled by a snooze is not skipped when it runs for *)
(* the still snoozed reminder.                                              *)
C8_SnoozedJobNotSkipped ==
  (/\ lastOp.op = "fire"
   /\ reminders[lastOp.rid].exists
   /\ reminders[lastOp.rid].active
   /\ reminders[lastOp.rid].status = "snoozed"
   /\ lastOp.at = reminders[lastOp.rid].snoozedUntil)
    => lastOp.res # "skipped"

(* C9: marking an item taken on a reminder the missed check had marked      *)
(* missed leaves the aggregate completed or partially_completed and         *)
(* missedAt cleared.                                                        *)
C9_LateCorrection ==
  (lastOp.op = "markTaken" /\ lastOp.res = "late")
    => /\ reminders[lastOp.rid].status \in {"completed", "partially_completed"}
       /\ reminders[lastOp.rid].missedAt = None

(* C10: after an item changed, the aggregate is the stated function of the  *)
(* item statuses: completed iff all taken, missed as soon as one is missed, *)
(* partially_completed iff some but not all taken and none missed, pending  *)
(* when all are pending.                                                    *)
C10_AggregateOfItems ==
  (lastOp.op \in {"markTaken", "markMissed"} /\ lastOp.res \in {"ok", "late"})
    => LET statuses == reminders[lastOp.rid].medicines
           taken == {i \in DOMAIN statuses : statuses[i] = "taken"}
           missed == {i \in DOMAIN statuses : statuses[i] = "missed"}
       IN reminders[lastOp.rid].status =
            IF missed # {} THEN "missed"
            ELSE IF taken = DOMAIN statuses THEN "completed"
            ELSE IF taken # {} THEN "partially_completed"
            ELSE "pending"

(* C11: after markMedicineAsMissed succeeded the stored aggregate status is *)
(* missed, also when other items of the reminder are already taken.        *)
C11_MarkMissedGivesMissed ==
  (lastOp.op = "markMissed" /\ lastOp.res \in {"ok", "late"})
    => reminders[lastOp.rid].status = "missed"

(* C12: when a recurring reminder fires and its next time is after          *)
(* scheduleEnd, the step creates no reminder and adds no fire job.          *)
C12_NoSuccessorPastEnd ==
  [][\A r \in Ids :
       (/\ dispatched'[r] > dispatched[r]
        /\ reminders[r].repeat # "none"
        /\ reminders[r].scheduleEnd # None
        /\ calculateNextTime(reminders[r]) > reminders[r].scheduleEnd)
         => /\ \A n \in Ids : reminders'[n].exists = reminders[n].exists
            /\ \A j \in BagToSet(reminderQueue') :
                 CopiesIn(j, reminderQueue') <= CopiesIn(j, reminderQueue)]_vars

(* A recurring reminder fired past the end of its series: no successor *)
C12_Witness ==
  /\ lastOp.op = "fire"
  /\ lastOp.res = "sent"
  /\ reminders[lastOp.rid].repeat # "none"
  /\ reminders[lastOp.rid].scheduleEnd # None
  /\ calculateNextTime(reminders[lastOp.rid]) > reminders[lastOp.rid].scheduleEnd
  /\ \A n \in Ids :
       reminders[n].exists
         => reminders[n].time # calculateNextTime(reminders[lastOp.rid])

(* C13: when a recurring reminder without scheduleEnd has fired, its next   *)
(* occurrence exists.                                                       *)
C13_OpenEndedSeriesContinues ==
  (/\ lastOp.op = "fire"
   /\ lastOp.res = "sent"
   /\ reminders[lastOp.rid].repeat # "none"
   /\ reminders[lastOp.rid].scheduleEnd = None)
    => \E n \in Ids :
         /\ reminders[n].exists
         /\ reminders[n].time = calculateNextTime(reminders[lastOp.rid])

----------------------------------------------------------------------------
(* Weekly series: the first reminder falls on any day of a week, shortly   *)
(* after the clock, with no listed day, one or two listed days, or Monday, *)
(* Wednesday and Friday.                                                   *)

DaysOfWeekChoices ==
  {days \in SUBSET (0..6) : Cardinality(days) <= 2} \cup {{1, 3, 5}}

WeeklyInit ==
  /\ \E day \in 0..6, days \in DaysOfWeekChoices :
       /\ now = day * DayMinutes
       /\ reminders =
            [r \in Ids |->
               IF r = 1
               THEN [NewReminder("u1", day * DayMinutes + NearTime, MaxItems,
                                 "weekly",
                                 (day + 7 * MaxReminders) * DayMinutes + NearTime)
                       EXCEPT !.daysOfWeek = days]
               ELSE NoReminder]
  /\ reminderQueue = EmptyBag
  /\ missedDoseQueue = EmptyBag
  /\ nextJobId = 1
  /\ dispatched = [r \in Ids |-> 0]
  /\ guardianNotified = [r \in Ids |-> 0]
  /\ lastOp = NoOp
  /\ apiCalls = 0
  /\ checking = NoCheck

WeeklySpec == WeeklyInit /\ [][EngineNext]_vars

(* C14: the successor of a weekly reminder with listed days falls on the    *)
(* smallest listed day after the current day of the week, or else on the    *)
(* smallest listed day of the following week, at the same time of day; with *)
(* no listed day it falls seven days later.                                 *)
C14_WeeklyNextDay ==
  [][\A r \in Ids, n \in Ids :
       (/\ dispatched'[r] > dispatched[r]
        /\ reminders[r].repeat = "weekly"
        /\ ~reminders[n].exists
        /\ reminders'[n].exists)
         => LET t == reminders[r].time
                days == reminders[r].daysOfWeek
                later == {d \in days : d > getDay(t)}
                next == reminders'[n].time
            IN IF days = {}
               THEN next = t + 7 * DayMinutes
               ELSE /\ next > t
                    /\ next - t <= 7 * DayMinutes
                    /\ MinuteOfDay(next) = MinuteOfDay(t)
                    /\ getDay(next) = IF later # {} THEN SetMin(later)
                                      ELSE SetMin(days)
                    /\ later # {} => next - t < 7 * DayMinutes - getDay(t) * DayMinutes]_vars

(* Monday, Wednesday, Friday: a Wednesday reminder got its successor on the *)
(* Friday of the same week                                                  *)
C14_Witness ==
  /\ reminders[1].exists
  /\ reminders[1].daysOfWeek = {1, 3, 5}
  /\ getDay(reminders[1].time) = 3
  /\ \E n \in Ids :
       /\ reminders[n].exists
       /\ reminders[n].time = reminders[1].time + 2 * DayMinutes
       /\ getDay(reminders[n].time) = 5

(* C15: when deleteReminder has cancelled a reminder, no job of it that has *)
(* not started is left in either queue: nothing is left when no job of it   *)
(* was executing, and at most the one executing job otherwise.              *)
C15_CancelRemovesAllJobs ==
  (lastOp.op = "delete" /\ lastOp.res \in {"ok", "ok_while_executing"})
    => LET copies(q) == BagCardinality(q) - BagCardinality(removeJobs(q, lastOp.rid, FALSE))
       IN copies(reminderQueue) + copies(missedDoseQueue)
            <= IF lastOp.res = "ok" THEN 0 ELSE 1

(* C16: a fire job that runs for a reminder that is inactive or no longer   *)
(* pending does nothing: no notification is sent, no missed-check job is    *)
(* added, no successor reminder or fire job is created, and the reminder    *)
(* is not written.                                                          *)
C16_StaleFireIsNoOp ==
  [][(/\ lastOp'.op = "fire"
      /\ reminderQueue' # reminderQueue
      /\ reminders[lastOp'.rid].exists
      /\ (~reminders[lastOp'.rid].active
            \/ reminders[lastOp'.rid].status # "pending"))
       => /\ dispatched' = dispatched
          /\ missedDoseQueue' = missedDoseQueue
          /\ reminders' = reminders
          /\ nextJobId' = nextJobId
          /\ \A j \in BagToSet(reminderQueue') :
               CopiesIn(j, reminderQueue') <= CopiesIn(j, reminderQueue)]_vars

C16_Witness ==
  /\ lastOp.op = "fire"
  /\ lastOp.res = "skipped"
  /\ ~reminders[lastOp.rid].active
  /\ reminders[lastOp.rid].status = "pending"
  /\ dispatched[lastOp.rid] = 0

(* C17: scheduleUserReminders(userId) adds fire jobs only for reminders of   *)
(* that user, and the count it returns is the number of jobs added.         *)
C17_OnlyOwnReminders ==
  [][(lastOp'.op = "scheduleUser" /\ reminderQueue' # reminderQueue)
       => /\ \A j \in BagToSet(reminderQueue') :
               CopiesIn(j, reminderQueue') > CopiesIn(j, reminderQueue)
                 => reminders[j.rid].user = lastOp'.res
          /\ lastOp'.at = BagCardinality(reminderQueue')
                            - BagCardinality(reminderQueue)]_vars

(* C18: a job that is in a queue when the process has restarted is not lost  *)
(* and is eventually executed, at or after the time it was scheduled for:   *)
(* a fire job by the fire handler, a missed-check job by the missed-check   *)
(* handler.                                                                 *)
C18_JobsRunOnTimeAfterRestart ==
  \A r \in Ids :
    /\ (lastOp.op = "restart" /\ JobsOf(reminderQueue, r) # {})
         ~> (lastOp.op = "fire" /\ lastOp.rid = r /\ now >= lastOp.at)
    /\ (lastOp.op = "restart" /\ JobsOf(missedDoseQueue, r) # {})
         ~> (lastOp.op = "missed" /\ lastOp.rid = r /\ now >= lastOp.at)

(* C19: a reminder never has more than one missed-check job outstanding,    *)
(* however often the fire handler ran for it.                               *)
C19_OneMissedCheckOutstanding ==
  \A r \in Ids :
    \A j \in JobsOf(missedDoseQueue, r) :
      /\ CopiesIn(j, missedDoseQueue) <= 1
      /\ JobsOf(missedDoseQueue, r) = {j}

(* C20: a failure inside the fire handler or the missed-check handler is    *)
(* caught: the invocation ends with a result, its job leaves the queue as   *)
(* completed and is not put back, and every other job of both queues is     *)
(* left as it was.                                                          *)
C20_HandlerFailureContained ==
  [][/\ (lastOp'.op = "fire" /\ lastOp'.res = "error"
           /\ reminderQueue' # reminderQueue)
          => /\ reminderQueue' \sqsubseteq reminderQueue
             /\ BagCardinality(reminderQueue') = BagCardinality(reminderQueue) - 1
             /\ missedDoseQueue' = missedDoseQueue
     /\ (lastOp'.op = "missed" /\ lastOp'.res = "error"
           /\ missedDoseQueue' # missedDoseQueue)
          => /\ missedDoseQueue' \sqsubseteq missedDoseQueue
             /\ BagCardinality(missedDoseQueue')
                  = BagCardinality(missedDoseQueue) - 1
             /\ reminderQueue' = reminderQueue]_vars

C20_Witness ==
  /\ lastOp.op = "missed"
  /\ lastOp.res = "error"
  /\ reminders[lastOp.rid].status = "pending"
  /\ JobsOf(missedDoseQueue, lastOp.rid) # {}
  /\ \A j \in BagToSet(missedDoseQueue) : j.attemptsMade = 0

(* C21: markMedicineAsTaken / markMedicineAsMissed called with an index     *)
(* that is not one of 0..n-1 answers "Invalid medicine index" and leaves    *)
(* the reminder as it was.                                                  *)
C21_BadIndexRejected ==
  [][(/\ lastOp'.op \in {"markTaken", "markMissed"}
      /\ apiCalls' = apiCalls + 1
      /\ reminders[lastOp'.rid].exists
      /\ ~IsElement(reminders[lastOp'.rid], lastOp'.arg))
       => /\ lastOp'.res = "invalid_index"
          /\ reminders' = reminders]_vars

(* C22: when the missed-check handler has marked a reminder missed, every    *)
(* item that was pending is missed, the aggregate is missed and missedAt is *)
(* set.                                                                     *)
C22_EscalationMarksItems ==
  (lastOp.op = "missed" /\ lastOp.res = "missed")
    => LET reminder == reminders[lastOp.rid]
       IN /\ reminder.status = "missed"
          /\ reminder.missedAt # None
          /\ \A i \in DOMAIN reminder.medicines : reminder.medicines[i] # "pending"

(* C23: the stored aggregate status of every reminder that is not snoozed   *)
(* is the one its item statuses give: pending when all are pending,         *)
(* completed when all are taken, missed when one is missed,                 *)
(* partially_completed when some are taken (either of the two when items    *)
(* are taken and missed).                                                   *)
C23_AggregateNeverDiverges ==
  \A r \in Ids :
    (reminders[r].exists /\ reminders[r].status # "snoozed")
      => LET statuses == reminders[r].medicines
             taken == {i \in DOMAIN statuses : statuses[i] = "taken"}
             missed == {i \in DOMAIN statuses : statuses[i] = "missed"}
         IN reminders[r].status \in
              IF taken = {} /\ missed = {} THEN {"pending"}
              ELSE IF taken = DOMAIN statuses THEN {"completed"}
              ELSE IF missed # {} /\ taken # {} THEN {"missed", "partially_completed"}
              ELSE IF missed # {} THEN {"missed"}
              ELSE IF taken # {} THEN {"partially_completed"}
              ELSE {"pending"}

C25_GraceAfterDispatch ==
  [][\A r \in Ids :
       dispatched'[r] > dispatched[r]
         => \A j \in JobsOf(missedDoseQueue', r) :
              CopiesIn(j, missedDoseQueue') > CopiesIn(j, missedDoseQueue)
                => j.dueAt >= now + GraceMinutes]_vars

(* C26: when the missed-check handler escalates a reminder whose owner has  *)
(* a guardian and the guardian is not notified (the account could not be    *)
(* loaded or the dispatch failed), the reminder is missed with missedAt     *)
(* set, and the job leaves the queue and is not put back for a retry.       *)
C26_GuardianFailureContained ==
  [][(/\ lastOp'.op = "missed"
      /\ missedDoseQueue' # missedDoseQueue
      /\ reminders[lastOp'.rid].exists
      /\ reminders[lastOp'.rid].status = "pending"
      /\ lastOp'.res # "error"
      /\ ParentOf(reminders[lastOp'.rid].user) # "none"
      /\ ~reminders[lastOp'.rid].parentNotified
      /\ guardianNotified' = guardianNotified)
       => /\ lastOp'.res = "missed"
          /\ reminders'[lastOp'.rid].status = "missed"
          /\ reminders'[lastOp'.rid].missedAt = now
          /\ missedDoseQueue' \sqsubseteq missedDoseQueue
          /\ BagCardinality(missedDoseQueue')
               = BagCardinality(missedDoseQueue) - 1]_vars

C26_Witness ==
  /\ lastOp.op = "missed"
  /\ lastOp.res = "missed"
  /\ ParentOf(reminders[lastOp.rid].user) # "none"
  /\ guardianNotified[lastOp.rid] = 0
  /\ ~reminders[lastOp.rid].parentNotified
  /\ reminders[lastOp.rid].status = "missed"
  /\ reminders[lastOp.rid].missedAt = now
  /\ JobsOf(missedDoseQueue, lastOp.rid) = {}

(* C27: when a recurring reminder fires, its status, item statuses, missedAt *)
(* and recurrence fields are after the step what they were before it,       *)
(* whether a successor was created or the series ended at scheduleEnd.      *)
C27_FiredReminderNotMutated ==
  [][\A r \in Ids :
       (dispatched'[r] > dispatched[r] /\ reminders[r].repeat # "none")
         => /\ reminders'[r].status = reminders[r].status
            /\ reminders'[r].medicines = reminders[r].medicines
            /\ reminders'[r].missedAt = reminders[r].missedAt
            /\ reminders'[r].time = reminders[r].time
            /\ reminders'[r].repeat = reminders[r].repeat
            /\ reminders'[r].daysOfWeek = reminders[r].daysOfWeek
            /\ reminders'[r].daysOfMonth = reminders[r].daysOfMonth
            /\ reminders'[r].repeatInterval = reminders[r].repeatInterval
            /\ reminders'[r].repeatUnit = reminders[r].repeatUnit
            /\ reminders'[r].scheduleEnd = reminders[r].scheduleEnd]_vars

C27_Witness ==
  \E r \in Ids :
    /\ reminders[r].exists
    /\ lastOp.op = "fire" /\ lastOp.res = "sent" /\ lastOp.rid = r
    /\ reminders[r].repeat # "none"
    /\ reminders[r].scheduleEnd # None
    /\ reminders[r].status = "pending"
    /\ reminders[r].missedAt = None
    /\ \E n \in Ids \ {r} :
         /\ reminders[n].exists
         /\ reminders[n].time = calculateNextTime(reminders[r])
         /\ JobsOf(reminderQueue, n) # {}

DaysOfMonthChoices == {{1, 15}, {15, 31}, {29}, {30}, {31}}

MonthlyInit ==
  /\ \E day \in {15, 30, 31}, days \in DaysOfMonthChoices :
       /\ now = (day - 1) * DayMinutes
       /\ reminders =
            [r \in Ids |->
               IF r = 1
               THEN [NewReminder("u1", (day - 1) * DayMinutes + NearTime, MaxItems,
                                 "monthly",
                                 (day + 31 * (MaxReminders + 1)) * DayMinutes)
                       EXCEPT !.daysOfMonth = days]
               ELSE NoReminder]
  /\ reminderQueue = EmptyBag
  /\ missedDoseQueue = EmptyBag
  /\ nextJobId = 1
  /\ dispatched = [r \in Ids |-> 0]
  /\ guardianNotified = [r \in Ids |-> 0]
  /\ lastOp = NoOp
  /\ apiCalls = 0
  /\ checking = NoCheck

(* The engine; the clock moves with the jobs that fall due *)
MonthlyNext ==
  \/ InitializeReminders
  \/ Fire
  \/ MissedCheck
  \/ AdvanceClock

MonthlySpec == MonthlyInit /\ [][MonthlyNext]_vars

(* C29: the successor of a monthly reminder with listed days falls on the   *)
(* smallest listed day after the current day of the month in the same       *)
(* month, or else on the smallest listed day in the next month, at the same *)
(* time of day; its day of the month is always a listed day.                *)
C29_MonthlyNextDay ==
  [][\A r \in Ids, n \in Ids :
       (/\ dispatched'[r] > dispatched[r]
        /\ reminders[r].repeat = "monthly"
        /\ reminders[r].daysOfMonth # {}
        /\ ~reminders[n].exists
        /\ reminders'[n].exists)
         => LET t == reminders[r].time
                days == reminders[r].daysOfMonth
                later == {d \in days : d > getDate(t)}
                next == reminders'[n].time
                months(x) == 12 * getFullYear(x) + getMonth(x)
            IN /\ getDate(next) \in days
               /\ getDate(next) = IF later # {} THEN SetMin(later) ELSE SetMin(days)
               /\ months(next) = IF later # {} THEN months(t) ELSE months(t) + 1
               /\ MinuteOfDay(next) = MinuteOfDay(t)]_vars

(* C30: initializeReminders, that is scheduleRemindersInRange(now, now + 48  *)
(* hours), adds a fire job for every active reminder that is pending or     *)
(* snoozed and whose effective time (snoozedUntil when snoozed, else time)  *)
(* lies in the range and in the future, also for a snoozed reminder whose   *)
(* time is before the range.                                                *)
C30_RangeByEffectiveTime ==
  [][(lastOp'.op = "initialize"
        /\ (lastOp' # lastOp \/ reminderQueue' # reminderQueue))
       => \A r \in Ids :
            (/\ reminders[r].exists
             /\ reminders[r].active
             /\ reminders[r].status \in {"pending", "snoozed"}
             /\ EffectiveTime(reminders[r]) >= now
             /\ EffectiveTime(reminders[r]) <= now + HorizonMinutes
             /\ EffectiveTime(reminders[r]) > now)
              => \E j \in JobsOf(reminderQueue', r) :
                   /\ j.fireAt = EffectiveTime(reminders[r])
                   /\ CopiesIn(j, reminderQueue') > CopiesIn(j, reminderQueue)]_vars


----------------------------------------------------------------------------
(* C31: after k executions of the fire handler that dispatched a           *)
(* notification for an occurrence, notificationSent is true and            *)
(* notificationCount equals k                                              *)
C31_NoIncrementLost ==
  \A r \in Ids :
     reminders[r].exists =>
       /\ reminders[r].notificationCount = dispatched[r]
       /\ (dispatched[r] > 0 => reminders[r].notificationSent)

----------------------------------------------------------------------------
(* C32: a fire job or a missed-check job that runs for a deleted reminder  *)
(* is a no-op: nothing is dispatched, no guardian is notified, no record   *)
(* is written, no successor is created and no job is added                 *)
C32_JobOfDeletedIsNoOp ==
  [][\A rid \in Ids :
       (/\ reminders[rid] = DeletedReminder
        /\ lastOp'.rid = rid
        /\ \/ lastOp'.op = "fire" /\ reminderQueue' # reminderQueue
           \/ lastOp'.op = "missed" /\ missedDoseQueue' # missedDoseQueue)
         => /\ reminders' = reminders
            /\ dispatched' = dispatched
            /\ guardianNotified' = guardianNotified
            /\ reminderQueue' \sqsubseteq reminderQueue
            /\ missedDoseQueue' \sqsubseteq missedDoseQueue
            /\ nextJobId' = nextJobId]_vars

(* A fire job has run for a deleted reminder while a missed-check job of   *)
(* the same reminder is still outstanding                                  *)
C32_Witness ==
  /\ lastOp.op = "fire"
  /\ lastOp.res = "not_found"
  /\ reminders[lastOp.rid] = DeletedReminder
  /\ dispatched[lastOp.rid] > 0
  /\ JobsOf(missedDoseQueue, lastOp.rid) # {}

----------------------------------------------------------------------------
(* Two one-off reminders, created by one user or by two for the same or    *)
(* for different times, and a process that is restarted.                   *)
CleanupInit ==
  /\ now = 0
  /\ \E u \in Users, v \in Users, t \in {NearTime, FarTime}, w \in {NearTime, FarTime} :
       reminders =
         [r \in Ids |->
            IF r = 1 THEN NewReminder(u, t, MaxItems, "none", None)
            ELSE IF r = 2 THEN NewReminder(v, w, MaxItems, "none", None)
            ELSE NoReminder]
  /\ reminderQueue = EmptyBag
  /\ missedDoseQueue = EmptyBag
  /\ nextJobId = 1
  /\ dispatched = [r \in Ids |-> 0]
  /\ guardianNotified = [r \in Ids |-> 0]
  /\ lastOp = NoOp
  /\ apiCalls = 0
  /\ checking = NoCheck

CleanupSpec == CleanupInit /\ [][RestartNext]_vars

(* C33: the system never deletes a reminder by itself: a reminder that     *)
(* exists still exists after every step that is not the delete request of  *)
(* a user for that reminder                                                *)
C33_OnlyUsersDelete ==
  [][\A r \in Ids :
       (reminders[r].exists /\ ~(lastOp'.op = "delete" /\ lastOp'.rid = r))
         => reminders'[r].exists]_vars

----------------------------------------------------------------------------
(* C34: when the user's markTaken completed the reminder (every item       *)
(* taken, status completed) before the missed-check handler writes, the    *)
(* handler's write does not leave the reminder with status missed          *)
C34_WriteFromFreshState ==
  [][(/\ checking.active
      /\ ~checking'.active
      /\ reminders[checking.job.rid].status = "completed"
      /\ AllTaken(reminders[checking.job.rid].medicines))
       => reminders'[checking.job.rid].status # "missed"]_vars

----------------------------------------------------------------------------
(* C35: a snooze request for a reminder that is completed, partially       *)
(* completed or missed does not make it snoozed and adds no fire job       *)
C35_SnoozeOnlyFromPending ==
  [][\A rid \in Ids :
       (/\ lastOp'.op = "snooze"
        /\ lastOp'.rid = rid
        /\ apiCalls' # apiCalls
        /\ reminders[rid].exists
        /\ reminders[rid].status \in {"completed", "partially_completed", "missed"})
         => /\ reminders'[rid].status # "snoozed"
            /\ \A j \in JobsOf(reminderQueue', rid) :
                 CopiesIn(j, reminderQueue') <= CopiesIn(j, reminderQueue)]_vars

----------------------------------------------------------------------------
(* A daily series whose first reminder has one or two fire jobs in the     *)
(* queue: the jobs that startup and one hourly refresh added for it (no    *)
(* job id is given to scheduleReminder, so every refresh adds a job).      *)
(* nextJobId counts the jobs added from this state on.                     *)
SeriesInit ==
  /\ now = 0
  /\ \E u \in Users :
       reminders =
         [r \in Ids |->
            IF r = 1
            THEN NewReminder(u, NearTime, MaxItems, "daily", DayMinutes + NearTime)
            ELSE NoReminder]
  /\ \E copies \in 1..2 :
       LET first == scheduleReminder(EmptyBag, 1, 1, NearTime).q
       IN reminderQueue =
            IF copies = 1 THEN first
            ELSE scheduleReminder(first, 1, 1, NearTime).q
  /\ missedDoseQueue = EmptyBag
  /\ nextJobId = 1
  /\ dispatched = [r \in Ids |-> 0]
  /\ guardianNotified = [r \in Ids |-> 0]
  /\ lastOp = NoOp
  /\ apiCalls = 0
  /\ checking = NoCheck

SeriesSpec == SeriesInit /\ [][EngineNext]_vars

(* The reminders that continue the series of reminder o *)
SuccessorsOf(o) ==
  {n \in Ids \ {o} : /\ reminders[n].exists
                     /\ reminders[n].user = reminders[o].user
                     /\ reminders[n].repeat = reminders[o].repeat
                     /\ reminders[n].time = calculateNextTime(reminders[o])}

(* C36: a reminder of a series has at most one successor, however often    *)
(* the fire handler ran for it                                             *)
C36_AtMostOneSuccessor ==
  \A o \in Ids :
     (reminders[o].exists /\ reminders[o].repeat # "none")
       => Cardinality(SuccessorsOf(o)) <= 1

----------------------------------------------------------------------------
----------------------------------------------------------------------------
(* Recurrence rules that pass the validators of ReminderSchema: days of    *)
(* the week within 0..6, days of the month within 1..31, an interval of at *)
(* least 1 with one of the four units.                                     *)
RuleChoices ==
  {[repeat |-> "daily", daysOfWeek |-> {}, daysOfMonth |-> {},
    repeatInterval |-> 1, repeatUnit |-> "days"]}
  \cup {[repeat |-> "weekly", daysOfWeek |-> days, daysOfMonth |-> {},
         repeatInterval |-> 1, repeatUnit |-> "days"] :
          days \in {{}, {4}, {0, 6}}}
  \cup {[repeat |-> "monthly", daysOfWeek |-> {}, daysOfMonth |-> days,
         repeatInterval |-> 1, repeatUnit |-> "days"] :
          days \in {{}, {31}, {1, 15}}}
  \cup {[repeat |-> "custom", daysOfWeek |-> {}, daysOfMonth |-> {},
         repeatInterval |-> interval, repeatUnit |-> unit] :
          interval \in 1..2, unit \in {"hours", "days", "weeks", "months"}}

(* A series with any of the rules, starting on 1 or 31 January 1970 (a     *)
(* Thursday and a Saturday) and ending long after                          *)
RuleInit ==
  /\ \E day \in {1, 31}, rule \in RuleChoices :
       /\ now = (day - 1) * DayMinutes
       /\ reminders =
            [r \in Ids |->
               IF r = 1
               THEN [NewReminder("u1", (day - 1) * DayMinutes + NearTime, MaxItems,
                                 rule.repeat, 400 * DayMinutes)
                       EXCEPT !.daysOfWeek = rule.daysOfWeek,
                              !.daysOfMonth = rule.daysOfMonth,
                              !.repeatInterval = rule.repeatInterval,
                              !.repeatUnit = rule.repeatUnit]
               ELSE NoReminder]
  /\ reminderQueue = EmptyBag
  /\ missedDoseQueue = EmptyBag
  /\ nextJobId = 1
  /\ dispatched = [r \in Ids |-> 0]
  /\ guardianNotified = [r \in Ids |-> 0]
  /\ lastOp = NoOp
  /\ apiCalls = 0
  /\ checking = NoCheck

RuleSpec == RuleInit /\ [][MonthlyNext]_vars

(* C38: for every reminder of a series with a valid rule, calculateNextTime *)
(* gives a time strictly later than the reminder's own time, and every     *)
(* successor the fire handler creates is later than the reminder it        *)
(* follows                                                                 *)
C38_NextTimeIsLater ==
  \A r \in Ids :
     (reminders[r].exists /\ reminders[r].repeat # "none")
       => /\ calculateNextTime(reminders[r]) > reminders[r].time
          /\ \A n \in SuccessorsOf(r) : reminders[n].time > reminders[r].time

(* The fire handler has created the successor of a reminder due on the    *)
(* 31st in a series that repeats by a custom interval of months            *)
C38_Witness ==
  /\ lastOp.op = "fire"
  /\ lastOp.res = "sent"
  /\ reminders[lastOp.rid].repeat = "custom"
  /\ reminders[lastOp.rid].repeatUnit = "months"
  /\ getDate(reminders[lastOp.rid].time) = 31
  /\ SuccessorsOf(lastOp.rid) # {}

----------------------------------------------------------------------------
(* C39: whenever the missed-check handler sets a reminder to missed, the   *)
(* reminder is recorded as sent (notificationSent is true)                 *)
C39_MissedOnlyAfterSent ==
  [][\A rid \in Ids :
       (/\ lastOp'.op = "missed"
        /\ lastOp'.rid = rid
        /\ lastOp'.res = "missed"
        /\ missedDoseQueue' # missedDoseQueue)
         => reminders'[rid].notificationSent]_vars

====
